---------------------------- MODULE Spec2Model ----------------------------
(***************************************************************************)
(* A model of src/WalletAnalysis.tsx: the WalletAnalysis component (its    *)
(* activeTab state, the hasData gate, the four tab bodies and the inline   *)
(* swap-activity parser of the swaps tab) and the TokenLogo component (its *)
(* per-instance error state).                                              *)
(*                                                                         *)
(* Text is a sequence of one-character strings, so that String.split,      *)
(* startsWith, slice and toUpperCase are computed character by character.  *)
(* Numbers are integers.  pnlByToken, analysis and the relative-time label *)
(* of a transaction (date-fns) are not modelled, nor is the exit animation *)
(* of AnimatePresence: the content of a tab is unmounted as soon as        *)
(* another tab is selected.  A render that throws unmounts the tree, after *)
(* which no event of the component can occur.                              *)
(***************************************************************************)
EXTENDS Integers, Sequences, FiniteSets

\* props:        the props of the current render of WalletAnalysis
\* activeTab:    useState("overview") of WalletAnalysis
\* error:        useState(false) of every mounted TokenLogo, by position
\* renderError:  "none", or the place where the last render threw
\* lastSelected: history, the tab of the most recent onClick of a TabButton
VARIABLES props, activeTab, error, renderError, lastSelected

vars == <<props, activeTab, error, renderError, lastSelected>>

----------------------------------------------------------------------------
(* Bounds of the model                                                     *)

\* the largest number of blocks of a generated well-formed swap text
MaxBlocks == 2

----------------------------------------------------------------------------
(* Text literals                                                           *)

\* the value of a JavaScript expression that evaluates to undefined
undefined == <<"undefined">>

Sentinel ==
    <<"N", "o", " ", "s", "w", "a", "p", " ", "a", "c", "t", "i", "v", "i",
      "t", "y", " ", "d", "a", "t", "a", " ", "a", "v", "a", "i", "l", "a",
      "b", "l", "e", ".">>

NoTokensText ==
    <<"N", "o", " ", "t", "o", "k", "e", "n", "s", " ", "f", "o", "u", "n",
      "d", " ", "i", "n", " ", "t", "h", "i", "s", " ", "w", "a", "l", "l",
      "e", "t", ".">>

UnknownTokenText == <<"U", "n", "k", "n", "o", "w", "n", " ", "T", "o", "k", "e", "n">>

NAText == <<"N", "/", "A">>

Dollar == <<"$">>

Minus == <<"-">>

NewLine == <<"\n">>

BlankLine == <<"\n", "\n">>

ColonSpace == <<":", " ">>

LowerLetters ==
    <<"a", "b", "c", "d", "e", "f", "g", "h", "i", "j", "k", "l", "m", "n",
      "o", "p", "q", "r", "s", "t", "u", "v", "w", "x", "y", "z">>

UpperLetters ==
    <<"A", "B", "C", "D", "E", "F", "G", "H", "I", "J", "K", "L", "M", "N",
      "O", "P", "Q", "R", "S", "T", "U", "V", "W", "X", "Y", "Z">>

DigitChars == <<"0", "1", "2", "3", "4", "5", "6", "7", "8", "9">>

----------------------------------------------------------------------------
(* The JavaScript string and number operations the component uses          *)

\* s.indexOf(sep): the first position (from 1) where sep occurs, 0 if none
IndexOf(s, sep) ==
    LET at == {i \in 1..(Len(s) - Len(sep) + 1) :
                   SubSeq(s, i, i + Len(sep) - 1) = sep}
    IN  IF at = {} THEN 0 ELSE CHOOSE i \in at : \A j \in at : i <= j

RECURSIVE Split(_, _)
\* s.split(sep) for a non-empty separator: "".split(sep) is [""]
Split(s, sep) ==
    LET i == IndexOf(s, sep)
    IN  IF i = 0
        THEN <<s>>
        ELSE <<SubSeq(s, 1, i - 1)>> \o Split(SubSeq(s, i + Len(sep), Len(s)), sep)

\* a[k] for a JavaScript array a and an index k counted from 0
At(a, k) == IF k + 1 <= Len(a) THEN a[k + 1] ELSE undefined

\* s.startsWith(prefix)
StartsWith(s, prefix) ==
    /\ Len(s) >= Len(prefix)
    /\ SubSeq(s, 1, Len(prefix)) = prefix

\* s.slice(from, to) for 0 <= from <= to
Slice(s, from, to) ==
    SubSeq(s, from + 1, IF to < Len(s) THEN to ELSE Len(s))

UpperChar(c) ==
    IF \E k \in 1..Len(LowerLetters) : LowerLetters[k] = c
    THEN UpperLetters[CHOOSE k \in 1..Len(LowerLetters) : LowerLetters[k] = c]
    ELSE c

\* s.toUpperCase()
ToUpperCase(s) == [i \in 1..Len(s) |-> UpperChar(s[i])]

RECURSIVE NatText(_)
NatText(n) ==
    IF n < 10
    THEN <<DigitChars[n + 1]>>
    ELSE NatText(n \div 10) \o <<DigitChars[(n % 10) + 1]>>

\* n.toString() for an integer n
IntText(n) == IF n < 0 THEN Minus \o NatText(0 - n) ELSE NatText(n)

\* n.toFixed(digits) for an integer n and digits >= 1
ToFixed(n, digits) ==
    IntText(n) \o <<".">> \o [i \in 1..digits |-> "0"]

\* x || fallback for a text x: undefined and "" are falsy
OrElse(x, fallback) == IF x = undefined \/ x = <<>> THEN fallback ELSE x

\* obj.field of a record, undefined when the record has no such field
TextField(obj, field) == IF field \in DOMAIN obj THEN obj[field] ELSE undefined

----------------------------------------------------------------------------
(* The input snapshots the model draws the props from                      *)

\* one block of the swap-activity protocol: a header line and the five
\* key: value lines, joined by line breaks
BlockText(b) ==
    b.header
      \o NewLine \o <<"T", "i", "m", "e", "s", "t", "a", "m", "p">> \o ColonSpace \o b.timestamp
      \o NewLine \o <<"F", "r", "o", "m">> \o ColonSpace \o b.from
      \o NewLine \o <<"T", "o">> \o ColonSpace \o b.to
      \o NewLine \o <<"A", "m", "o", "u", "n", "t">> \o ColonSpace \o b.amount
      \o NewLine \o <<"U", "S", "D", " ", "E", "q", "u", "i", "v", "a", "l", "e", "n", "t">> \o ColonSpace \o b.usd

RECURSIVE JoinBlocks(_)
\* the texts of a non-empty sequence of blocks, separated by one blank line
JoinBlocks(bs) ==
    IF Len(bs) = 1
    THEN BlockText(bs[1])
    ELSE BlockText(bs[1]) \o BlankLine \o JoinBlocks(Tail(bs))

\* a block whose values are plain
PlainBlock ==
    [header |-> <<"S", "w", "a", "p", " ", "1">>, timestamp |-> <<"1", "/", "2">>, from |-> <<"S", "O", "L">>,
     to |-> <<"U", "S", "D", "C">>, amount |-> <<"1", "0">>, usd |-> <<"$", "1", "5", "0", ".", "0", "0">>]

\* a block whose timestamp and amount contain ": " themselves, with an
\* empty header line and a lower-case symbol
ColonBlock ==
    [header |-> <<>>, timestamp |-> <<"9", ":", " ", "3", "0">>, from |-> <<"b", "o", "n", "k">>,
     to |-> <<"S", "O", "L">>, amount |-> <<"1", ":", " ", "2">>, usd |-> <<"$", "5">>]

WellFormedBlocks == {PlainBlock, ColonBlock}

\* the sequences of 1..MaxBlocks well-formed blocks
WellFormedInputs ==
    UNION {[1..n -> WellFormedBlocks] : n \in 1..MaxBlocks}

WellFormedTexts == {JoinBlocks(bs) : bs \in WellFormedInputs}

PlainText == BlockText(PlainBlock)

\* a header and three of the five lines
ShortBlockText ==
    <<"S", "w", "a", "p", " ", "1">> \o NewLine \o <<"T", "i", "m", "e", "s", "t", "a", "m", "p", ":", " ", "1", "/", "2">> \o NewLine \o <<"F", "r", "o", "m", ":", " ", "S", "O", "L">>
      \o NewLine \o <<"T", "o", ":", " ", "U", "S", "D", "C">>

\* six lines, the From line without the ": " separator
NoSeparatorText ==
    <<"S", "w", "a", "p", " ", "1">> \o NewLine \o <<"T", "i", "m", "e", "s", "t", "a", "m", "p", ":", " ", "1", "/", "2">> \o NewLine \o <<"F", "r", "o", "m", " ", "S", "O", "L">>
      \o NewLine \o <<"T", "o", ":", " ", "U", "S", "D", "C">> \o NewLine \o <<"A", "m", "o", "u", "n", "t", ":", " ", "1", "0">>
      \o NewLine \o <<"U", "S", "D", " ", "E", "q", "u", "i", "v", "a", "l", "e", "n", "t", ":", " ", "$", "1", "5", "0", ".", "0", "0">>

MalformedTexts ==
    {<<>>,                                           \* the empty string
     PlainText \o BlankLine,                         \* trailing separator
     PlainText \o BlankLine \o BlankLine \o PlainText, \* doubled separator
     ShortBlockText,
     PlainText \o BlankLine \o ShortBlockText,
     NoSeparatorText,
     Sentinel \o NewLine,                            \* not the sentinel
     PlainText \o NewLine \o <<"N", "o", "t", "e", ":", " ", "x">>}              \* a seventh line

SwapTexts == {Sentinel} \cup WellFormedTexts \cup MalformedTexts

Amounts == {0, 5}

\* a token with every field, and one with none of the optional ones
FullToken ==
    [name |-> <<"S", "o", "l", "a", "n", "a">>, symbol |-> <<"S", "O", "L">>, uiAmount |-> 5, valueUsd |-> 5,
     priceUsd |-> 5]

BareToken == [address |-> <<"S", "o", "1", "1">>]

TokenLists == {<<>>, <<FullToken, BareToken>>}

\* transactions with no balance change, with a complete first balance
\* change, and with a first balance change that has no uiAmount
NoChangeTransaction == [mainAction |-> <<"s", "e", "n", "d">>, balanceChange |-> <<>>]

FullTransaction ==
    [mainAction |-> <<"s", "w", "a", "p">>,
     balanceChange |-> <<[symbol |-> <<"S", "O", "L">>, uiAmount |-> 5]>>]

NoAmountTransaction ==
    [mainAction |-> <<"s", "e", "n", "d">>, balanceChange |-> <<[symbol |-> <<"S", "O", "L">>]>>]

TransactionLists ==
    {<<>>, <<NoChangeTransaction, FullTransaction>>, <<NoAmountTransaction>>}

PnlTexts == {<<"-", "1", "2", ".", "3", "4">>, <<"0", ".", "0", "0">>}

PercentTexts == {<<"-", "5", ".", "2", "%">>, <<"0", ".", "0", "0">>}

Snapshots ==
    [totalValue : Amounts, tokenCount : Amounts, topTokens : TokenLists,
     recentTransactions : TransactionLists, swapActivity : SwapTexts,
     overallPNL : PnlTexts, pnlPercentage : PercentTexts]

\* the changes of one prop between two renders
PropChanges ==
    {<<"totalValue", v>> : v \in Amounts}
      \cup {<<"tokenCount", v>> : v \in Amounts}
      \cup {<<"topTokens", v>> : v \in TokenLists}
      \cup {<<"recentTransactions", v>> : v \in TransactionLists}
      \cup {<<"swapActivity", v>> : v \in SwapTexts}
      \cup {<<"overallPNL", v>> : v \in PnlTexts}
      \cup {<<"pnlPercentage", v>> : v \in PercentTexts}

\* the snapshot p with one prop changed
WithProp(p, change) == [p EXCEPT ![change[1]] = change[2]]

----------------------------------------------------------------------------
(* TokenLogo                                                               *)

Sides == {"from", "to"}

\* what one TokenLogo instance renders from its prop and its error state;
\* symbol.slice throws a TypeError when symbol is undefined
TokenLogo(symbol, err) ==
    IF err
    THEN IF symbol = undefined
         THEN [kind |-> "throw"]
         ELSE [kind |-> "badge", text |-> ToUpperCase(Slice(symbol, 0, 2))]
    ELSE [kind |-> "img",
          base |-> "https://raw.githubusercontent.com/solana-labs/token-list/main/assets/mainnet/",
          symbol |-> symbol,
          file |-> "/logo.png"]

----------------------------------------------------------------------------
(* The swaps tab: the inline parser of swapActivity                        *)

\* const [, value] = line.split(": ")
SecondOfSplit(line) == At(Split(line, ColonSpace), 1)

\* the callback with swapDetails[k]?.split in place of swapDetails[k].split:
\* a short block gives a row with missing fields instead of an exception
SwapRowLenient(swap) ==
    LET swapDetails == Tail(Split(swap, NewLine))
        valueAt(k)  == IF At(swapDetails, k) = undefined
                       THEN undefined
                       ELSE At(Split(At(swapDetails, k), ColonSpace), 1)
    IN  [thrown        |-> FALSE,
         timestamp     |-> valueAt(0),
         fromToken     |-> valueAt(1),
         toToken       |-> valueAt(2),
         amount        |-> valueAt(3),
         usdEquivalent |-> valueAt(4)]

\* the body of the map callback up to the return: swapDetails[k].split
\* throws a TypeError when swapDetails[k] is undefined
SwapRow(swap) ==
    LET swapDetails == Tail(Split(swap, NewLine))
    IN  IF \E k \in 0..4 : At(swapDetails, k) = undefined
        THEN [thrown |-> TRUE]
        ELSE [thrown        |-> FALSE,
              timestamp     |-> SecondOfSplit(At(swapDetails, 0)),
              fromToken     |-> SecondOfSplit(At(swapDetails, 1)),
              toToken       |-> SecondOfSplit(At(swapDetails, 2)),
              amount        |-> SecondOfSplit(At(swapDetails, 3)),
              usdEquivalent |-> SecondOfSplit(At(swapDetails, 4))]

RECURSIVE MapSwapRowReversed(_)
\* the map with the rows collected last block first
MapSwapRowReversed(blocks) ==
    IF blocks = <<>>
    THEN <<>>
    ELSE MapSwapRowReversed(Tail(blocks)) \o <<SwapRow(Head(blocks))>>

RECURSIVE MapSwapRow(_)
\* blocks.map(swap => ...): the callback applied to every block, in order
MapSwapRow(blocks) ==
    IF blocks = <<>>
    THEN <<>>
    ELSE <<SwapRow(Head(blocks))>> \o MapSwapRow(Tail(blocks))

\* swapActivity.split("\n\n").map(...): one row per block, in order; the
\* whole map throws when the callback throws for some block
SwapRows(text) ==
    LET each == MapSwapRow(Split(text, BlankLine))
    IN  IF \E i \in 1..Len(each) : each[i].thrown
        THEN [thrown |-> TRUE, rows |-> <<>>]
        ELSE [thrown |-> FALSE, rows |-> each]

\* SwapRows of every input text of the model, computed once
ParsedTexts == [text \in SwapTexts |-> SwapRows(text)]

\* the entry of that table for one input text
RowsOfText(text) == ParsedTexts[text]

\* the sentinel test as swapActivity.startsWith(...)
IsSentinelPrefix(text) == StartsWith(text, Sentinel)

\* swapActivity === "No swap activity data available."
IsSentinel(text) == text = Sentinel

\* the body of the swaps tab
SwapsTab(p) ==
    IF IsSentinel(p.swapActivity)
    THEN [kind |-> "message", message |-> p.swapActivity, rows |-> <<>>]
    ELSE LET parsed == RowsOfText(p.swapActivity)
         IN  IF parsed.thrown
             THEN [kind |-> "throw", rows |-> <<>>]
             ELSE [kind |-> "table", rows |-> parsed.rows]

----------------------------------------------------------------------------
(* The other tabs                                                          *)

\* the overview cards with one sign, that of overallPNL, for both PNL cards
OverviewTabSharedSign(p) ==
    [totalValue   |-> Dollar \o ToFixed(p.totalValue, 2),
     tokenCount   |-> IntText(p.tokenCount),
     overallValue |-> p.overallPNL,
     overallIcon  |-> IF StartsWith(p.overallPNL, Minus)
                      THEN "ArrowDownRight" ELSE "ArrowUpRight",
     overallColor |-> IF StartsWith(p.overallPNL, Minus) THEN "red" ELSE "green",
     pctValue     |-> p.pnlPercentage,
     pctIcon      |-> "Activity",
     pctColor     |-> IF StartsWith(p.overallPNL, Minus) THEN "red" ELSE "green"]

\* the four DataCards of the overview tab
OverviewTab(p) ==
    [totalValue   |-> Dollar \o ToFixed(p.totalValue, 2),
     tokenCount   |-> IntText(p.tokenCount),
     overallValue |-> p.overallPNL,
     overallIcon  |-> IF StartsWith(p.overallPNL, Minus)
                      THEN "ArrowDownRight" ELSE "ArrowUpRight",
     overallColor |-> IF StartsWith(p.overallPNL, Minus) THEN "red" ELSE "green",
     pctValue     |-> p.pnlPercentage,
     pctIcon      |-> "Activity",
     pctColor     |-> IF StartsWith(p.pnlPercentage, Minus) THEN "red" ELSE "green"]

\* token.field?.toFixed(digits) || "N/A"
FixedOrNA(token, field, digits) ==
    IF field \in DOMAIN token THEN ToFixed(token[field], digits) ELSE NAText

\* one row of the tokens table
TokenRow(token) ==
    [name    |-> OrElse(TextField(token, "name"), UnknownTokenText),
     symbol  |-> OrElse(TextField(token, "symbol"), NAText),
     balance |-> FixedOrNA(token, "uiAmount", 4),
     value   |-> Dollar \o FixedOrNA(token, "valueUsd", 2),
     price   |-> Dollar \o FixedOrNA(token, "priceUsd", 4)]

\* the body of the tokens tab
TokensTab(p) ==
    IF Len(p.topTokens) > 0
    THEN [kind |-> "table",
          rows |-> [i \in 1..Len(p.topTokens) |-> TokenRow(p.topTokens[i])]]
    ELSE [kind |-> "message", message |-> NoTokensText]

\* one row of the transactions list: balanceChange[0]?.symbol and
\* balanceChange[0]?.uiAmount.toFixed(6); the optional chain stops only on
\* a missing balanceChange[0], so a missing uiAmount throws a TypeError
TransactionRow(transaction) ==
    LET changes == transaction.balanceChange
    IN  IF Len(changes) = 0
        THEN [thrown |-> FALSE, action |-> transaction.mainAction,
              symbol |-> undefined, amount |-> undefined]
        ELSE IF "uiAmount" \notin DOMAIN changes[1]
        THEN [thrown |-> TRUE]
        ELSE [thrown |-> FALSE, action |-> transaction.mainAction,
              symbol |-> TextField(changes[1], "symbol"),
              amount |-> ToFixed(changes[1].uiAmount, 6)]

\* the body of the transactions tab: a heading and one row per transaction
TransactionsTab(p) ==
    LET each == [i \in 1..Len(p.recentTransactions) |->
                     TransactionRow(p.recentTransactions[i])]
    IN  IF \E i \in 1..Len(each) : each[i].thrown
        THEN [kind |-> "throw", rows |-> <<>>]
        ELSE [kind |-> "list", rows |-> each]

----------------------------------------------------------------------------
(* WalletAnalysis                                                          *)

Tabs == {"overview", "tokens", "transactions", "swaps"}

\* hasData without the recentTransactions operand
HasDataNoTransactions(p) ==
    \/ p.totalValue > 0
    \/ p.tokenCount > 0
    \/ Len(p.topTokens) > 0

HasData(p) ==
    \/ p.totalValue > 0
    \/ p.tokenCount > 0
    \/ Len(p.topTokens) > 0
    \/ Len(p.recentTransactions) > 0

\* the positions of the TokenLogo instances a render mounts: two per swap
\* row, keyed by the row index
MountedLogos(p, tab) ==
    IF HasData(p) /\ tab = "swaps" /\ SwapsTab(p).kind = "table"
    THEN {<<i, side>> : i \in 1..Len(SwapsTab(p).rows), side \in Sides}
    ELSE {}

\* the symbol prop of the TokenLogo at a position
LogoSymbol(p, pos) ==
    LET row == SwapsTab(p).rows[pos[1]]
    IN  IF pos[2] = "from" THEN row.fromToken ELSE row.toToken

\* the element tree WalletAnalysis returns for its props and state
View(p, tab, err) ==
    IF ~HasData(p)
    THEN [kind |-> "noData", tabBar |-> FALSE, content |-> "none"]
    ELSE [kind    |-> "tabbed",
          tabBar  |-> TRUE,
          content |-> tab,
          body    |-> CASE tab = "overview"     -> OverviewTab(p)
                        [] tab = "tokens"       -> TokensTab(p)
                        [] tab = "transactions" -> TransactionsTab(p)
                        [] tab = "swaps"        -> SwapsTab(p),
          logos   |-> [pos \in DOMAIN err |-> TokenLogo(LogoSymbol(p, pos), err[pos])]]

\* where rendering WalletAnalysis and its TokenLogos throws, "none" if nowhere
RenderThrow(p, tab, err) ==
    IF ~HasData(p) THEN "none"
    ELSE IF tab = "transactions" /\ TransactionsTab(p).kind = "throw" THEN "transactions"
    ELSE IF tab = "swaps" /\ SwapsTab(p).kind = "throw" THEN "swaps"
    ELSE IF \E pos \in DOMAIN err : TokenLogo(LogoSymbol(p, pos), err[pos]).kind = "throw"
         THEN "TokenLogo"
    ELSE "none"

\* the error states after a render: an instance that stays mounted keeps
\* its state, a newly mounted one starts with useState(false)
KeptErrors(p, tab) ==
    [pos \in MountedLogos(p, tab) |->
        IF pos \in DOMAIN error THEN error[pos] ELSE FALSE]

NoLogos == [pos \in {} |-> FALSE]

\* commit a render of props p with state tab and logo states err; a render
\* that throws unmounts the tree
Commit(p, tab, err) ==
    LET thrown == RenderThrow(p, tab, err)
    IN  /\ props' = p
        /\ activeTab' = tab
        /\ renderError' = thrown
        /\ error' = IF thrown = "none" THEN err ELSE NoLogos

----------------------------------------------------------------------------
(* The state machine                                                       *)

\* the first render: useState("overview"), nothing mounted on the swaps tab
Init ==
    /\ props \in Snapshots
    /\ activeTab = "overview"
    /\ error = NoLogos
    /\ renderError = "none"
    /\ lastSelected = "overview"

\* onClick of a TabButton: setActiveTab(tab) and the render that follows;
\* the buttons exist only in the tabbed view
SelectTab(tab) ==
    /\ renderError = "none"
    /\ HasData(props)
    /\ lastSelected' = tab
    /\ Commit(props, tab, KeptErrors(props, tab))

\* a render with a new snapshot that also resets the tab to its initial value
RerenderResetsTab(p) ==
    /\ renderError = "none"
    /\ p # props
    /\ lastSelected' = lastSelected
    /\ Commit(p, "overview", KeptErrors(p, "overview"))

\* the parent renders WalletAnalysis with a new snapshot
Rerender(p) ==
    /\ renderError = "none"
    /\ p # props
    /\ lastSelected' = lastSelected
    /\ Commit(p, activeTab, KeptErrors(p, activeTab))

\* onError of the img of a mounted TokenLogo: setError(true) and the render
\* of that instance that follows
LogoError(pos) ==
    /\ renderError = "none"
    /\ pos \in DOMAIN error
    /\ ~error[pos]
    /\ lastSelected' = lastSelected
    /\ Commit(props, activeTab, [error EXCEPT ![pos] = TRUE])

Next ==
    \/ \E tab \in Tabs : SelectTab(tab)
    \/ \E change \in PropChanges : Rerender(WithProp(props, change))
    \/ \E pos \in DOMAIN error : LogoError(pos)

Spec == Init /\ [][Next]_vars

----------------------------------------------------------------------------
(* Properties of the swaps tab                                             *)

\* the swaps tab is the one being rendered
OnSwapsTab == HasData(props) /\ activeTab = "swaps"

\* each well-formed input with its text
WellFormedCases ==
    {[blocks |-> bs, text |-> JoinBlocks(bs)] : bs \in WellFormedInputs}

\* the part of a value before its first ": ", the whole value if it has none
FirstSegment(value) ==
    IF IndexOf(value, ColonSpace) = 0
    THEN value
    ELSE SubSeq(value, 1, IndexOf(value, ColonSpace) - 1)

\* row and block agree field by field, up to the first ": " of each value
RowFollowsBlock(row, b) ==
    /\ row.timestamp = FirstSegment(b.timestamp)
    /\ row.fromToken = FirstSegment(b.from)
    /\ row.toToken = FirstSegment(b.to)
    /\ row.amount = FirstSegment(b.amount)
    /\ row.usdEquivalent = FirstSegment(b.usd)

\* C1: a text of N well-formed blocks separated by one blank line renders,
\* without an exception, a table of exactly N rows, row i built from the
\* five value lines of block i in their positional order: no reordering,
\* no deduplication, no merging.
C1_RowsFollowBlocks ==
    \A c \in WellFormedCases :
        (OnSwapsTab /\ props.swapActivity = c.text) =>
            /\ renderError = "none"
            /\ SwapsTab(props).kind = "table"
            /\ Len(SwapsTab(props).rows) = Len(c.blocks)
            /\ \A i \in 1..Len(c.blocks) :
                   RowFollowsBlock(SwapsTab(props).rows[i], c.blocks[i])

\* two different blocks, the second first, rendered as two rows
C1_Witness ==
    /\ OnSwapsTab
    /\ renderError = "none"
    /\ props.swapActivity = JoinBlocks(<<ColonBlock, PlainBlock>>)
    /\ Len(SwapsTab(props).rows) = 2
    /\ SwapsTab(props).rows[1].fromToken = ColonBlock.from
    /\ SwapsTab(props).rows[2].fromToken = PlainBlock.from

\* row and block agree field by field on the whole value
RowEqualsBlock(row, b) ==
    /\ row.timestamp = b.timestamp
    /\ row.fromToken = b.from
    /\ row.toToken = b.to
    /\ row.amount = b.amount
    /\ row.usdEquivalent = b.usd

\* C2: each field of a swap row is everything after the first ": " of its
\* line, also when the value contains ": " again.
C2_WholeValueCaptured ==
    \A c \in WellFormedCases :
        (OnSwapsTab /\ props.swapActivity = c.text /\ renderError = "none") =>
            \A i \in 1..Len(c.blocks) :
                /\ i <= Len(SwapsTab(props).rows)
                /\ RowEqualsBlock(SwapsTab(props).rows[i], c.blocks[i])

\* the input texts in which some block has fewer than six lines
ShortBlockTexts ==
    {text \in SwapTexts :
        \E i \in 1..Len(Split(text, BlankLine)) :
            Len(Split(Split(text, BlankLine)[i], NewLine)) < 6}

\* C3: parsing a text that is not the sentinel and has a block of fewer
\* than six lines (an empty block included) fails with an exception: no
\* table is rendered, so the short block is neither skipped nor shown as a
\* partial row.
C3_ShortBlockThrows ==
    (/\ OnSwapsTab
     /\ props.swapActivity # Sentinel
     /\ props.swapActivity \in ShortBlockTexts)
        => renderError = "swaps"

\* a complete block followed by a trailing separator has thrown
C3_Witness ==
    /\ OnSwapsTab
    /\ props.swapActivity = PlainText \o BlankLine
    /\ renderError = "swaps"

\* C4: the sentinel text renders the sentinel message itself and no rows,
\* without parsing (the one-line sentinel would not survive the positional
\* reads); every other text either throws or renders a table of at least
\* one row, so none of them gives the sentinel's outcome.
C4_SentinelDistinct ==
    OnSwapsTab =>
        /\ props.swapActivity = Sentinel =>
               /\ renderError = "none"
               /\ SwapsTab(props).kind = "message"
               /\ SwapsTab(props).message = Sentinel
               /\ SwapsTab(props).rows = <<>>
               /\ DOMAIN error = {}
        /\ props.swapActivity # Sentinel =>
               /\ SwapsTab(props).kind # "message"
               /\ renderError = "none" =>
                      /\ SwapsTab(props).kind = "table"
                      /\ Len(SwapsTab(props).rows) >= 1

\* the sentinel shown on the swaps tab
C4_Witness ==
    /\ OnSwapsTab
    /\ props.swapActivity = Sentinel
    /\ renderError = "none"
    /\ View(props, activeTab, error).body.message = Sentinel

----------------------------------------------------------------------------
(* Properties of the tab state and of the top-level view                   *)

\* C5: the active tab is one of the four tabs, overview at first; it is
\* always the tab of the most recent selection (overview before any);
\* selecting the active tab changes nothing; and a change of the active
\* tab is always a selection, never a new snapshot, a change to or from the
\* no-data view, or a logo load failure.
C5_TabFollowsSelection ==
    /\ activeTab = "overview"
    /\ [](activeTab \in Tabs /\ activeTab = lastSelected)
    /\ [][SelectTab(activeTab) => UNCHANGED vars]_vars
    /\ [][activeTab' # activeTab => \E tab \in Tabs : SelectTab(tab)]_vars

\* the tokens tab stays selected while the no-data view is shown
C5_Witness ==
    /\ activeTab = "tokens"
    /\ lastSelected = "tokens"
    /\ ~HasData(props)
    /\ renderError = "none"

\* all four aggregate inputs are zero or empty
AllEmpty(p) ==
    /\ p.totalValue = 0
    /\ p.tokenCount = 0
    /\ p.topTokens = <<>>
    /\ p.recentTransactions = <<>>

C7_LogoFallsBackToBadge ==
    /\ renderError # "TokenLogo"
    /\ renderError = "none" =>
           \A pos \in DOMAIN error :
               error[pos] =>
                   LET logo   == View(props, activeTab, error).logos[pos]
                       symbol == LogoSymbol(props, pos)
                   IN  /\ logo.kind = "badge"
                       /\ Len(logo.text) = (IF Len(symbol) < 2 THEN Len(symbol) ELSE 2)
                       /\ \A k \in 1..Len(logo.text) :
                              logo.text[k] = UpperChar(symbol[k])

\* For the instances whose symbol is a string: a failed instance shows the
\* badge of its own symbol; an instance stays failed while it is mounted;
\* a load failure changes the state of no other instance and is possible
\* only while the image is shown (no second attempt once the badge is).
LogoStateIsPerInstance ==
    /\ [](\A pos \in DOMAIN error :
              (error[pos] /\ LogoSymbol(props, pos) # undefined) =>
                  TokenLogo(LogoSymbol(props, pos), error[pos]) =
                      [kind |-> "badge",
                       text |-> ToUpperCase(Slice(LogoSymbol(props, pos), 0, 2))])
    /\ [][\A pos \in DOMAIN error :
              (error[pos] /\ pos \in DOMAIN error') => error'[pos]]_vars
    /\ [][\A pos \in DOMAIN error :
              (LogoError(pos) /\ renderError' = "none") =>
                  /\ ~error[pos]
                  /\ DOMAIN error' = DOMAIN error
                  /\ \A other \in DOMAIN error \ {pos} :
                         error'[other] = error[other]]_vars

----------------------------------------------------------------------------
(* Properties of the overview, tokens and transactions tabs                *)

\* the text starts with the minus sign
Negative(s) == Len(s) > 0 /\ Head(s) = "-"

OnOverviewTab == HasData(props) /\ activeTab = "overview"

\* icon and colour of the overall PNL card follow the sign of overallPNL
OverallFollowsOwnSign(card) ==
    /\ card.overallIcon =
           (IF Negative(props.overallPNL) THEN "ArrowDownRight" ELSE "ArrowUpRight")
    /\ card.overallColor = (IF Negative(props.overallPNL) THEN "red" ELSE "green")

\* C8 as stated: on the overview tab the icon (down arrow or up arrow) and
\* the colour (red or green) of both PNL cards follow the sign of the
\* card's own text.
C8_BothCardsArrowBySign ==
    OnOverviewTab =>
        LET card == View(props, activeTab, error).body
        IN  /\ OverallFollowsOwnSign(card)
            /\ card.pctIcon =
                   (IF Negative(props.pnlPercentage)
                    THEN "ArrowDownRight" ELSE "ArrowUpRight")
            /\ card.pctColor =
                   (IF Negative(props.pnlPercentage) THEN "red" ELSE "green")

\* C8 amended: the icon and the colour of the overall PNL card and the
\* colour of the percentage card follow the sign of the card's own text;
\* the icon of the percentage card is the activity icon whatever the sign.
C8_SignDrivesOwnCard ==
    OnOverviewTab =>
        LET card == View(props, activeTab, error).body
        IN  /\ renderError = "none"
            /\ OverallFollowsOwnSign(card)
            /\ card.pctIcon = "Activity"
            /\ card.pctColor =
                   (IF Negative(props.pnlPercentage) THEN "red" ELSE "green")

\* a negative overall PNL next to a non-negative percentage
C8_Witness ==
    /\ OnOverviewTab
    /\ Negative(props.overallPNL)
    /\ ~Negative(props.pnlPercentage)
    /\ View(props, activeTab, error).body.overallColor = "red"
    /\ View(props, activeTab, error).body.pctColor = "green"

\* the text ends with "N/A"
EndsWithNA(s) ==
    /\ Len(s) >= Len(NAText)
    /\ SubSeq(s, Len(s) - Len(NAText) + 1, Len(s)) = NAText

\* the first balance change of the transaction is missing or has no amount
AmountAbsent(transaction) ==
    \/ transaction.balanceChange = <<>>
    \/ "uiAmount" \notin DOMAIN transaction.balanceChange[1]

\* C9: an absent amount is shown as "N/A" and never raises: in the cells
\* of a token row whose uiAmount, valueUsd or priceUsd is missing, and in
\* the row of a transaction whose balanceChange is empty or whose first
\* balance change has no uiAmount (the symbol of an empty balanceChange
\* being absent).
C9_AbsentAmountIsNA ==
    /\ (HasData(props) /\ activeTab = "tokens") =>
           /\ renderError = "none"
           /\ \A i \in 1..Len(props.topTokens) :
                  LET token == props.topTokens[i]
                      row   == View(props, activeTab, error).body.rows[i]
                  IN  /\ "uiAmount" \notin DOMAIN token => row.balance = NAText
                      /\ "valueUsd" \notin DOMAIN token => EndsWithNA(row.value)
                      /\ "priceUsd" \notin DOMAIN token => EndsWithNA(row.price)
    /\ (HasData(props) /\ activeTab = "transactions") =>
           /\ renderError = "none"
           /\ \A i \in 1..Len(props.recentTransactions) :
                  AmountAbsent(props.recentTransactions[i]) =>
                      LET row == View(props, activeTab, error).body.rows[i]
                      IN  /\ row.amount = NAText
                          /\ props.recentTransactions[i].balanceChange = <<>>
                                 => row.symbol = undefined

\* C10: with no tokens the tokens tab shows "No tokens found in this
\* wallet." instead of a table, and with no transactions the transactions
\* tab shows an empty-state message instead of an empty list; neither
\* raises.
C10_EmptyStateMessages ==
    /\ (HasData(props) /\ activeTab = "tokens" /\ props.topTokens = <<>>) =>
           /\ renderError = "none"
           /\ View(props, activeTab, error).body.kind = "message"
           /\ View(props, activeTab, error).body.message = NoTokensText
    /\ (HasData(props) /\ activeTab = "transactions"
            /\ props.recentTransactions = <<>>) =>
           /\ renderError = "none"
           /\ View(props, activeTab, error).body.kind = "message"

=============================================================================
